---- MODULE Spec2Model ----
(***************************************************************************)
(* Model of src/pydriller/avg_churn.py: monthly average code churn over a  *)
(* set of repositories, computed by a pool of worker processes that each   *)
(* scan a private copy of the repository for a slice of the date window.   *)
(*                                                                         *)
(* Dates are <<year, month, day>> (every datetime of the program is at     *)
(* midnight); a relativedelta is [months, days]; a month key "YYYY-MM" is  *)
(* the sequence of its character codes; a mean is an exact reduced         *)
(* fraction <<num, den>> (np.mean's float rounding is not modelled).       *)
(***************************************************************************)
EXTENDS Integers, Sequences, FiniteSets, TLC

VARIABLES
    pc,             \* position of __main__ / codeChurnPerDelta
    all_repos,      \* __main__: the repositories, in os.listdir order
    repoIdx,        \* __main__: index in all_repos of the current repoPath
    timeDelta,      \* codeChurnPerDelta argument
    numDirectories, \* codeChurnPerDelta argument
    corrupt,        \* dates at which the history of a repository cannot be read
    fsRepos,        \* the repository directories that exist on disk
    fsDirs,         \* versions N for which <tempDir>_v<N> exists on disk
    fsSnaps,        \* path <<N, i>> of <tempDir>_v<N>/tempDir_<i>/.git -> its content
    new_temp_dir,   \* codeChurnPerDelta local: version of the directory made
    dirs,           \* codeChurnPerDelta local: snapshot paths
    jobs,           \* codeChurnPerDelta local: the job list
    pool,           \* state of the multiprocessing pool
    status,         \* per job: "queued", "running", "done", "failed", "killed"
    started,        \* per job: how many times the pool began to execute it
    temp,           \* per job: codeChurnJob's temp record (or NoTemp)
    finishedJobs,   \* per job: codeChurnJob's finishedJobs list
    firstError,     \* MapResult: id of the first job that raised, or -1
    concurrent,     \* history: two jobs of this pool were running at one time
    result,         \* __main__: what codeChurnPerDelta returned
    error,          \* the exception that ended the program, or "none"
    combined_data,  \* __main__: month key -> list of churn samples
    months,         \* __main__: sorted month keys
    avg_churn,      \* __main__: mean churn per month of months
    summary,        \* __main__: the series split at the threshold, and the two means
    call,           \* arguments of the function under test (function specs)
    ret             \* its return value (function specs)

vars == <<pc, all_repos, repoIdx, timeDelta, numDirectories, corrupt, fsRepos, fsDirs,
          fsSnaps, new_temp_dir, dirs, jobs, pool, status, started, temp,
          finishedJobs, firstError, concurrent, result, error, combined_data,
          months, avg_churn, summary, call, ret>>

progVars == <<pc, all_repos, repoIdx, timeDelta, numDirectories, corrupt, fsRepos, fsDirs,
              fsSnaps, new_temp_dir, dirs, jobs, pool, status, started, temp,
              finishedJobs, firstError, concurrent, result, error, combined_data,
              months, avg_churn, summary>>

----------------------------------------------------------------------------
(* Bounds of the model.                                                    *)

\* mp.cpu_count() of the machine the model runs on
CpuCount == 4
\* the largest number of directories the partition is explored with
MaxDirs == 5
\* the largest month count of a step the function specifications draw
MaxStepMonths == 3

----------------------------------------------------------------------------
(* datetime and relativedelta                                              *)

GLOBAL_START_DATE == <<2019, 10, 1>>
GLOBAL_END_DATE == <<2025, 2, 1>>

DateLT(a, b) ==
    \/ a[1] < b[1]
    \/ a[1] = b[1] /\ a[2] < b[2]
    \/ a[1] = b[1] /\ a[2] = b[2] /\ a[3] < b[3]

DateLE(a, b) == a = b \/ DateLT(a, b)

IsLeap(y) == (y % 4 = 0 /\ y % 100 # 0) \/ y % 400 = 0

DaysInMonth(y, m) ==
    IF m = 2 THEN (IF IsLeap(y) THEN 29 ELSE 28)
    ELSE IF m \in {4, 6, 9, 11} THEN 30 ELSE 31

\* date + relativedelta(months=k): the month moves, the day is clipped to the
\* length of the month reached
AddMonths(date, k) ==
    LET total == date[1] * 12 + (date[2] - 1) + k
        y == total \div 12
        m == (total % 12) + 1
        dim == DaysInMonth(y, m)
    IN  <<y, m, IF date[3] > dim THEN dim ELSE date[3]>>

NextDay(date) ==
    IF date[3] < DaysInMonth(date[1], date[2]) THEN <<date[1], date[2], date[3] + 1>>
    ELSE IF date[2] < 12 THEN <<date[1], date[2] + 1, 1>>
    ELSE <<date[1] + 1, 1, 1>>

RECURSIVE AddDays(_, _)
AddDays(date, n) == IF n = 0 THEN date ELSE AddDays(NextDay(date), n - 1)

\* datetime + relativedelta: months first (with the day clipped), then days
AddDelta(date, stepSize) == AddDays(AddMonths(date, stepSize.months), stepSize.days)

\* the loop condition of createMonthList, with a <= in place of the <
LoopCondLE(startDate, endDate) == DateLE(startDate, endDate)

LoopCond(startDate, endDate) == DateLT(startDate, endDate)

RECURSIVE createMonthListLoop(_, _, _, _)
createMonthListLoop(startDate, endDate, stepSize, monthList) ==
    IF LoopCond(startDate, endDate)
    THEN createMonthListLoop(AddDelta(startDate, stepSize), endDate, stepSize,
                             Append(monthList, startDate))
    ELSE Append(monthList, endDate)

createMonthList(startDate, endDate, stepSize) ==
    createMonthListLoop(startDate, endDate, stepSize, <<>>)

\* [(monthList[i], monthList[i + 1]) for i in range(len(monthList) - 1)]
monthPairs(monthList) ==
    [i \in 1..(Len(monthList) - 1) |-> <<monthList[i], monthList[i + 1]>>]

----------------------------------------------------------------------------
(* np.array_split and createJobsByTimeDelta                                *)

\* sizes of the sections without the remainder spread over the first ones
SectionSizeNoExtras(Ntotal, Nsections, k) == Ntotal \div Nsections

\* the whole remainder goes to the first section
SectionSizeRemainderFirst(Ntotal, Nsections, k) ==
    (Ntotal \div Nsections) + (IF k = 1 THEN Ntotal % Nsections ELSE 0)

\* size of section k (1-based) of np.array_split: the first Ntotal % Nsections
\* sections hold one element more
SectionSize(Ntotal, Nsections, k) ==
    (Ntotal \div Nsections) + (IF k <= Ntotal % Nsections THEN 1 ELSE 0)

RECURSIVE SectionStart(_, _, _)
SectionStart(Ntotal, Nsections, k) ==
    IF k = 1 THEN 0
    ELSE SectionStart(Ntotal, Nsections, k - 1) + SectionSize(Ntotal, Nsections, k - 1)

\* np.array_split(ary, Nsections) for Nsections > 0 (it raises ValueError otherwise)
array_split(ary, Nsections) ==
    [k \in 1..Nsections |->
        LET st == SectionStart(Len(ary), Nsections, k)
            sz == SectionSize(Len(ary), Nsections, k)
        IN  [i \in 1..sz |-> ary[st + i]]]

\* the directory of every job is the first one
JobDirectoryFirst(directories, i) == directories[1]

\* "directory": directories[i] (i is 0-based in the source, 1-based here)
JobDirectory(directories, i) == directories[i]

\* a call that ends with the exception exc
Raised(exc) == [raised |-> exc, value |-> <<>>]

\* a call that returns v
Returned(v) == [raised |-> "none", value |-> v]

\* createJobsByTimeDelta(repoPath, timeDelta, directories), `existing` being
\* the repository directories on disk: the assert of line 44 fails for a
\* repoPath that does not exist, and np.array_split raises ValueError for
\* len(directories) = 0
createJobsByTimeDelta(existing, repoPath, delta, directories) ==
    IF repoPath \notin existing THEN Raised("AssertionError")
    ELSE IF Len(directories) = 0 THEN Raised("ValueError")
    ELSE LET pairs == monthPairs(createMonthList(GLOBAL_START_DATE, GLOBAL_END_DATE, delta))
             split == array_split(pairs, Len(directories))
         IN  Returned([i \in 1..Len(directories) |->
                         [id |-> i - 1, dateRanges |-> split[i],
                          directory |-> JobDirectory(directories, i)]])

----------------------------------------------------------------------------
(* The repositories and the history reader (pydriller.Repository)          *)

Repos == {"r1", "r2"}

\* the commits of each repository: date, insertions, deletions
RepoCommits(r) ==
    IF r = "r1"
    THEN {[hash |-> 1, date |-> <<2020, 1, 5>>, insertions |-> 10, deletions |-> 2],
          [hash |-> 2, date |-> <<2020, 1, 17>>, insertions |-> 5, deletions |-> 1],
          [hash |-> 3, date |-> <<2020, 1, 30>>, insertions |-> 0, deletions |-> 0]}
    ELSE {[hash |-> 4, date |-> <<2020, 1, 10>>, insertions |-> 4, deletions |-> 4],
          [hash |-> 5, date |-> <<2021, 10, 1>>, insertions |-> 3, deletions |-> 1],
          [hash |-> 6, date |-> <<2024, 11, 20>>, insertions |-> 7, deletions |-> 0]}

\* dates at which a history may be unreadable
FaultDates == {<<2022, 3, 15>>, <<2021, 10, 1>>}

\* Repository(path_to_repo, since, to).traverse_commits(): the commits whose
\* date lies in the closed window [since, to]
traverse_commits(content, since, to) ==
    {c \in RepoCommits(content) : DateLE(since, c.date) /\ DateLE(c.date, to)}

\* the traversal raises when the window holds an unreadable part of the history
ReadFails(bad, since, to) == \E d \in bad : DateLE(since, d) /\ DateLE(d, to)

RECURSIVE SumInsertions(_)
SumInsertions(commits) ==
    IF commits = {} THEN 0
    ELSE LET c == CHOOSE x \in commits : TRUE
         IN  c.insertions + SumInsertions(commits \ {c})

RECURSIVE SumDeletions(_)
SumDeletions(commits) ==
    IF commits = {} THEN 0
    ELSE LET c == CHOOSE x \in commits : TRUE
         IN  c.deletions + SumDeletions(commits \ {c})

----------------------------------------------------------------------------
(* codeChurnJob, one worker process per job                                *)

NoTemp == [id |-> -1]

\* the temp dict at the head of an iteration of the loop over dateRanges
NewTemp(job, range) ==
    [id |-> job.id, repoPath |-> job.directory, startDate |-> range[1],
     endDate |-> range[2], insertions |-> 0, deletions |-> 0, churn |-> 0]

\* the counters of the previous date range are carried into the next one
CarriedTemp(prev, job, range) ==
    IF "insertions" \in DOMAIN prev
    THEN [NewTemp(job, range) EXCEPT !.insertions = prev.insertions,
                                     !.deletions = prev.deletions]
    ELSE NewTemp(job, range)

\* lines 69-77: every iteration binds temp to a new dict, whatever temp held
FreshTemp(prev, job, range) == NewTemp(job, range)

\* the churn counts the insertions alone
ScanTempInsertionsOnly(t, commits) ==
    LET ins == t.insertions + SumInsertions(commits)
        del == t.deletions + SumDeletions(commits)
    IN  [t EXCEPT !.insertions = ins, !.deletions = del, !.churn = ins]

\* lines 78-81: the temp dict once the commits of its window are summed
ScanTemp(t, commits) ==
    LET ins == t.insertions + SumInsertions(commits)
        del == t.deletions + SumDeletions(commits)
    IN  [t EXCEPT !.insertions = ins, !.deletions = del, !.churn = ins + del]

\* all worker processes write one temp dict
TempSlotShared(j) == 1

\* the temp dict of job j is a local of the process that runs it
TempSlot(j) == j

\* codeChurnJob run alone from start to end on a readable history
codeChurnJobSeq(job, content) ==
    [k \in 1..Len(job.dateRanges) |->
        ScanTemp(NewTemp(job, job.dateRanges[k]),
                 traverse_commits(content, job.dateRanges[k][1], job.dateRanges[k][2]))]

----------------------------------------------------------------------------
(* __main__: grouping by month and averaging                               *)

\* n as `width` decimal digits, as character codes ('0' is 48)
RECURSIVE Digits(_, _)
Digits(n, width) ==
    IF width = 0 THEN <<>> ELSE Append(Digits(n \div 10, width - 1), 48 + (n % 10))

\* date.strftime("%Y-%m") ('-' is 45)
strftime(date) == Digits(date[1], 4) \o <<45>> \o Digits(date[2], 2)

\* comparison of two strings, code by code
RECURSIVE StrLT(_, _)
StrLT(a, b) ==
    IF Len(b) = 0 THEN FALSE
    ELSE IF Len(a) = 0 THEN TRUE
    ELSE IF a[1] # b[1] THEN a[1] < b[1]
    ELSE StrLT(Tail(a), Tail(b))

\* [item for sublist in data for item in sublist], data being the third
\* component of every tuple of result
RECURSIVE Flatten(_)
Flatten(res) == IF Len(res) = 0 THEN <<>> ELSE Head(res)[3] \o Flatten(Tail(res))

\* sorted(items, key=lambda x: x["startDate"]), a stable sort: an item goes
\* behind every item of an earlier startDate and behind the items of the same
\* startDate that stood before it
SortByStart(items) ==
    LET n == Len(items)
        pos == [i \in 1..n |->
                   Cardinality({k \in 1..n : DateLT(items[k].startDate, items[i].startDate)})
                   + Cardinality({k \in 1..i : items[k].startDate = items[i].startDate})]
    IN  [p \in 1..n |-> items[CHOOSE i \in 1..n : pos[i] = p]]

\* the churn of every item, in order
ChurnsOf(items) == [i \in 1..Len(items) |-> items[i].churn]

\* for item in items: combined_data.setdefault(month, []).append(item["churn"]),
\* month being item["startDate"].strftime("%Y-%m"): every key gets, behind the
\* samples it had, the churn of its items in the order of items
AddItems(cd, items) ==
    LET keys == {strftime(items[i].startDate) : i \in 1..Len(items)}
    IN  [month \in (DOMAIN cd) \cup keys |->
            (IF month \in DOMAIN cd THEN cd[month] ELSE <<>>)
            \o ChurnsOf(SelectSeq(items, LAMBDA it : strftime(it.startDate) = month))]

\* lines 191-195 for the result of one repository
AggregateResult(cd, res) == AddItems(cd, SortByStart(Flatten(res)))

\* sorted(keys): a key stands behind the keys smaller than it
SortedKeys(keys) ==
    LET rank == [k \in keys |-> 1 + Cardinality({o \in keys : StrLT(o, k)})]
    IN  [p \in 1..Cardinality(keys) |-> CHOOSE k \in keys : rank[k] = p]

RECURSIVE SumSeq(_)
SumSeq(s) == IF Len(s) = 0 THEN 0 ELSE Head(s) + SumSeq(Tail(s))

RECURSIVE GCD(_, _)
GCD(a, b) == IF b = 0 THEN a ELSE GCD(b, a % b)

\* the fraction n/d (n >= 0, d > 0) in lowest terms
Frac(n, d) == LET g == GCD(n, d) IN <<n \div g, d \div g>>

\* the mean taken to be the first sample
MeanFirst(samples) == Frac(samples[1], 1)

\* np.mean(samples) of a non-empty list
Mean(samples) == Frac(SumSeq(samples), Len(samples))

\* the keys from the largest to the smallest
KeysDescending(keys) ==
    LET rank == [k \in keys |-> 1 + Cardinality({o \in keys : StrLT(k, o)})]
    IN  [p \in 1..Cardinality(keys) |-> CHOOSE k \in keys : rank[k] = p]

\* the month keys, not in ascending order
MonthsOfDescending(cd) == KeysDescending(DOMAIN cd)

\* months = sorted(combined_data.keys())
MonthsOf(cd) == SortedKeys(DOMAIN cd)

\* avg_churn = [np.mean(combined_data[month]) for month in months]
AvgChurnOf(cd, ms) == [i \in 1..Len(ms) |-> Mean(cd[ms[i]])]

\* the number written by a string of decimal digits
RECURSIVE ParseInt(_)
ParseInt(digits) ==
    IF Len(digits) = 0 THEN 0
    ELSE 10 * ParseInt(SubSeq(digits, 1, Len(digits) - 1)) + (digits[Len(digits)] - 48)

\* line 209: dt.strptime(month, "%Y-%m"), the first day of the month
strptime(month) == <<ParseInt(SubSeq(month, 1, 4)), ParseInt(SubSeq(month, 6, 7)), 1>>

\* line 201
threshold_date == <<2022, 11, 1>>

\* the threshold month itself counts as before
BeforeThresholdLE(month_dt) == DateLE(month_dt, threshold_date)

\* line 212: month_dt < threshold_date
BeforeThreshold(month_dt) == DateLT(month_dt, threshold_date)

\* zip(months, avg_churn)
Zip(ms, ac) ==
    [i \in 1..(IF Len(ms) < Len(ac) THEN Len(ms) ELSE Len(ac)) |-> <<ms[i], ac[i]>>]

\* the second components of a sequence of pairs
Seconds(pairs) == [i \in 1..Len(pairs) |-> pairs[i][2]]

\* lines 207-214: before_nov_2022_churn
BeforeList(ms, ac) ==
    Seconds(SelectSeq(Zip(ms, ac), LAMBDA z : BeforeThreshold(strptime(z[1]))))

\* lines 207-216: after_nov_2022_churn
AfterList(ms, ac) ==
    Seconds(SelectSeq(Zip(ms, ac), LAMBDA z : ~BeforeThreshold(strptime(z[1]))))

FracAdd(a, b) == Frac(a[1] * b[2] + b[1] * a[2], a[2] * b[2])

\* the sum of the fractions of list at the positions lo..hi, by halves
RECURSIVE FracSumRange(_, _, _)
FracSumRange(list, lo, hi) ==
    IF lo > hi THEN <<0, 1>>
    ELSE IF lo = hi THEN list[lo]
    ELSE LET mid == (lo + hi) \div 2
         IN  FracAdd(FracSumRange(list, lo, mid), FracSumRange(list, mid + 1, hi))

\* sum(list) of a list of fractions
FracSum(list) == FracSumRange(list, 1, Len(list))

\* lines 219-220: sum(list) / len(list) if list else 0
AverageOrZero(list) ==
    IF Len(list) > 0
    THEN LET total == FracSum(list) IN Frac(total[1], total[2] * Len(list))
    ELSE <<0, 1>>

\* lines 201-220: the two lists and their averages
Summary(ms, ac) ==
    [before |-> BeforeList(ms, ac),
     after |-> AfterList(ms, ac),
     avg_before |-> AverageOrZero(BeforeList(ms, ac)),
     avg_after |-> AverageOrZero(AfterList(ms, ac))]

----------------------------------------------------------------------------
(* The program: __main__ calling codeChurnPerDelta for every repository    *)

NoDir == -1
NoResult == [ok |-> FALSE, value |-> <<>>]
NoSummary == [before |-> <<>>, after |-> <<>>, avg_before |-> <<0, 1>>,
              avg_after |-> <<0, 1>>]

Months(k) == [months |-> k, days |-> 0]

\* the step of __main__ is one month; the pool is also explored with coarser
\* steps, which leave every worker a few intervals
CoarseSteps == {Months(12), Months(36)}

\* (timeDelta, numDirectories) of a run: the one-month step with one worker,
\* the coarse steps with every count from -1 to mp.cpu_count()
RunParams ==
    {<<Months(1), 1>>} \cup {<<s, n>> : s \in CoarseSteps, n \in (-1)..CpuCount}

\* os.listdir gives the repositories in any order
RepoOrders == {<<"r1">>, <<"r2">>, <<"r1", "r2">>, <<"r2", "r1">>}

FnIdle == call = <<>> /\ ret = <<>>

Init ==
    /\ pc = "main"
    /\ all_repos \in RepoOrders
    /\ repoIdx = 0
    /\ \E p \in RunParams : timeDelta = p[1] /\ numDirectories = p[2]
    /\ corrupt \in {{}} \cup {{d} : d \in FaultDates}
    /\ fsRepos \in {Repos} \cup {Repos \ {r} : r \in Repos}
    /\ fsDirs = {}
    /\ fsSnaps = <<>>
    /\ new_temp_dir = NoDir
    /\ dirs = <<>>
    /\ jobs = <<>>
    /\ pool = "none"
    /\ status = <<>>
    /\ started = <<>>
    /\ temp = <<>>
    /\ finishedJobs = <<>>
    /\ firstError = -1
    /\ concurrent = FALSE
    /\ result = NoResult
    /\ error = "none"
    /\ combined_data = <<>>
    /\ months = <<>>
    /\ avg_churn = <<>>
    /\ summary = NoSummary
    /\ FnIdle

repoPath == all_repos[repoIdx]

\* line 184: the next repository, and the call of codeChurnPerDelta
CallRun ==
    /\ pc = "main"
    /\ repoIdx < Len(all_repos)
    /\ repoIdx' = repoIdx + 1
    /\ pc' = "assert"
    /\ new_temp_dir' = NoDir
    /\ dirs' = <<>>
    /\ jobs' = <<>>
    /\ pool' = "none"
    /\ status' = <<>>
    /\ started' = <<>>
    /\ temp' = <<>>
    /\ finishedJobs' = <<>>
    /\ firstError' = -1
    /\ concurrent' = FALSE
    /\ result' = NoResult
    /\ UNCHANGED <<all_repos, timeDelta, numDirectories, corrupt, fsRepos, fsDirs, fsSnaps,
                   error, combined_data, months, avg_churn, summary, call, ret>>

\* the worker counts the assert of line 89 lets through
CapacityOk(n) == n <= CpuCount - 1

\* line 89: assert numDirectories <= mp.cpu_count() - 1
CheckCapacity ==
    /\ pc = "assert"
    /\ IF CapacityOk(numDirectories)
       THEN pc' = "tempdir" /\ error' = error
       ELSE pc' = "crashed" /\ error' = "AssertionError"
    /\ UNCHANGED <<all_repos, repoIdx, timeDelta, numDirectories, corrupt, fsRepos, fsDirs,
                   fsSnaps, new_temp_dir, dirs, jobs, pool, status, started, temp,
                   finishedJobs, firstError, concurrent, result, combined_data,
                   months, avg_churn, summary, call, ret>>

\* line 34: os.path.exists(f"{base_dir}_v{version}")
PathExists(existing, version) == version \in existing

\* a scan that steps over every other version
NextVersionSkip(version) == version + 2

\* line 35: version += 1
NextVersion(version) == version + 1

\* lines 32-36: the first version, counting from `version`, whose directory
\* does not exist
RECURSIVE FirstFree(_, _)
FirstFree(existing, version) ==
    IF PathExists(existing, version)
    THEN FirstFree(existing, NextVersion(version))
    ELSE version

\* a mkdir that accepts a directory that is already there (exist_ok)
MkdirExistOk(existing, version) == TRUE

\* line 37: os.mkdir makes the directory, or raises FileExistsError when the
\* path exists
MkdirOk(existing, version) == ~PathExists(existing, version)

\* line 91: new_temp_dir = get_new_temp_dir(tempDir)
GetNewTempDir ==
    /\ pc = "tempdir"
    /\ new_temp_dir' = FirstFree(fsDirs, 0)
    /\ fsDirs' = fsDirs \cup {new_temp_dir'}
    /\ pc' = "copy"
    /\ UNCHANGED <<all_repos, repoIdx, timeDelta, numDirectories, corrupt, fsRepos, fsSnaps,
                   dirs, jobs, pool, status, started, temp, finishedJobs, firstError,
                   concurrent, result, error, combined_data, months, avg_churn, summary,
                   call, ret>>

\* os.path.join(tempDir, f"tempDir_{i}", ".git")
SnapPath(tempDir, i) == <<tempDir, i>>

\* line 92, one iteration of the loop of createMultipleRepos: copytree
CopyRepo ==
    /\ pc = "copy"
    /\ Len(dirs) < numDirectories
    /\ repoPath \in fsRepos
    /\ LET tempDirName == SnapPath(new_temp_dir, Len(dirs))
       IN  /\ fsSnaps' = [p \in (DOMAIN fsSnaps) \cup {tempDirName} |->
                             IF p = tempDirName THEN repoPath ELSE fsSnaps[p]]
           /\ dirs' = Append(dirs, tempDirName)
    /\ UNCHANGED <<pc, all_repos, repoIdx, timeDelta, numDirectories, corrupt, fsRepos, fsDirs,
                   new_temp_dir, jobs, pool, status, started, temp, finishedJobs,
                   firstError, concurrent, result, error, combined_data, months,
                   avg_churn, summary, call, ret>>

\* what a copytree that failed on one of the files leaves under tempDirName
PartialCopy == "partial"

\* line 112, shutil.copytree raising; the exception leaves createMultipleRepos,
\* codeChurnPerDelta and __main__. Either the source directory is gone
\* (os.scandir raises before anything is made), or a file cannot be copied
\* (the destination was made and holds what was copied: shutil.Error)
CopyFails ==
    /\ pc = "copy"
    /\ Len(dirs) < numDirectories
    /\ \E exc \in {"FileNotFoundError", "shutil.Error"} :
          /\ (exc = "FileNotFoundError") = (repoPath \notin fsRepos)
          /\ error' = exc
          /\ fsSnaps' =
                IF exc = "shutil.Error"
                THEN LET tempDirName == SnapPath(new_temp_dir, Len(dirs))
                     IN  [p \in (DOMAIN fsSnaps) \cup {tempDirName} |->
                            IF p = tempDirName THEN PartialCopy ELSE fsSnaps[p]]
                ELSE fsSnaps
    /\ pc' = "crashed"
    /\ UNCHANGED <<all_repos, repoIdx, timeDelta, numDirectories, corrupt, fsRepos, fsDirs,
                   new_temp_dir, dirs, jobs, pool, status, started, temp, finishedJobs,
                   firstError, concurrent, result, combined_data, months,
                   avg_churn, summary, call, ret>>

\* line 93: jobs = createJobsByTimeDelta(repoPath, timeDelta, dirs), or the
\* exception it raises (line 44 or np.array_split) leaves codeChurnPerDelta
CreateJobs ==
    /\ pc = "copy"
    /\ ~(Len(dirs) < numDirectories)
    /\ LET r == createJobsByTimeDelta(fsRepos, repoPath, timeDelta, dirs)
       IN  IF r.raised = "none"
           THEN /\ jobs' = r.value
                /\ pc' = "pool"
                /\ error' = error
           ELSE /\ jobs' = jobs
                /\ pc' = "crashed"
                /\ error' = r.raised
    /\ UNCHANGED <<all_repos, repoIdx, timeDelta, numDirectories, corrupt, fsRepos, fsDirs,
                   fsSnaps, new_temp_dir, dirs, pool, status, started, temp,
                   finishedJobs, firstError, concurrent, result, combined_data,
                   months, avg_churn, summary, call, ret>>

\* lines 96-99: the pool is created and pool.map hands it the jobs
PoolMap ==
    /\ pc = "pool"
    /\ pool' = "running"
    /\ status' = [j \in 1..Len(jobs) |-> "queued"]
    /\ started' = [j \in 1..Len(jobs) |-> 0]
    /\ temp' = [j \in 1..Len(jobs) |-> NoTemp]
    /\ finishedJobs' = [j \in 1..Len(jobs) |-> <<>>]
    /\ pc' = "map"
    /\ UNCHANGED <<all_repos, repoIdx, timeDelta, numDirectories, corrupt, fsRepos, fsDirs,
                   fsSnaps, new_temp_dir, dirs, jobs, firstError, concurrent, result,
                   error, combined_data, months, avg_churn, summary, call, ret>>

Running(st) == {j \in DOMAIN st : st[j] \in {"running", "scanning"}}

\* a pool process takes job j off the task queue
TakeTask(st, j) == [st EXCEPT ![j] = "running"]

\* a pool process starts codeChurnJob(jobs[j])
StartJob(j) ==
    /\ pc = "map"
    /\ status[j] = "queued"
    /\ Cardinality(Running(status)) < numDirectories
    /\ status' = TakeTask(status, j)
    /\ started' = [started EXCEPT ![j] = @ + 1]
    /\ concurrent' = (concurrent \/ Running(status) # {})
    /\ UNCHANGED <<pc, all_repos, repoIdx, timeDelta, numDirectories, corrupt, fsRepos, fsDirs,
                   fsSnaps, new_temp_dir, dirs, jobs, pool, temp, finishedJobs,
                   firstError, result, error, combined_data, months, avg_churn, summary,
                   call, ret>>

\* lines 68-77: the next date range, temp initialised
JobBegin(j) ==
    /\ pc = "map"
    /\ status[j] = "running"
    /\ Len(finishedJobs[j]) < Len(jobs[j].dateRanges)
    /\ temp' = [temp EXCEPT ![TempSlot(j)] =
                   FreshTemp(@, jobs[j], jobs[j].dateRanges[Len(finishedJobs[j]) + 1])]
    /\ status' = [status EXCEPT ![j] = "scanning"]
    /\ UNCHANGED <<pc, all_repos, repoIdx, timeDelta, numDirectories, corrupt, fsRepos, fsDirs,
                   fsSnaps, new_temp_dir, dirs, jobs, pool, started, finishedJobs,
                   firstError, concurrent, result, error, combined_data, months,
                   avg_churn, summary, call, ret>>

\* lines 78-82: the commits of the window are traversed and summed, or the
\* traversal raises and the job ends with that exception
JobScan(j) ==
    /\ pc = "map"
    /\ status[j] = "scanning"
    /\ LET range == jobs[j].dateRanges[Len(finishedJobs[j]) + 1]
           commits == traverse_commits(fsSnaps[jobs[j].directory], range[1], range[2])
           t == ScanTemp(temp[TempSlot(j)], commits)
       IN  IF ReadFails(corrupt, range[1], range[2])
           THEN /\ status' = [status EXCEPT ![j] = "failed"]
                /\ firstError' = IF firstError = -1 THEN jobs[j].id ELSE firstError
                /\ UNCHANGED <<temp, finishedJobs>>
           ELSE /\ temp' = [temp EXCEPT ![TempSlot(j)] = t]
                /\ finishedJobs' = [finishedJobs EXCEPT ![j] = Append(@, t)]
                /\ status' = [status EXCEPT ![j] = "running"]
                /\ UNCHANGED firstError
    /\ UNCHANGED <<pc, all_repos, repoIdx, timeDelta, numDirectories, corrupt, fsRepos, fsDirs,
                   fsSnaps, new_temp_dir, dirs, jobs, pool, started, concurrent,
                   result, error, combined_data, months, avg_churn, summary, call, ret>>

\* line 83: return id, repoPath, finishedJobs
JobReturn(j) ==
    /\ pc = "map"
    /\ status[j] = "running"
    /\ Len(finishedJobs[j]) = Len(jobs[j].dateRanges)
    /\ status' = [status EXCEPT ![j] = "done"]
    /\ UNCHANGED <<pc, all_repos, repoIdx, timeDelta, numDirectories, corrupt, fsRepos, fsDirs,
                   fsSnaps, new_temp_dir, dirs, jobs, pool, started, temp,
                   finishedJobs, firstError, concurrent, result, error,
                   combined_data, months, avg_churn, summary, call, ret>>

\* the result of pool.map is ready as soon as one job has raised
MapReadyEarly(st) ==
    (\E j \in DOMAIN st : st[j] = "failed") \/ (\A j \in DOMAIN st : st[j] = "done")

\* MapResult: the result of pool.map is ready once every job has returned or raised
MapReady(st) == \A j \in DOMAIN st : st[j] \in {"done", "failed"}

\* leaving the with block without stopping the worker processes
PoolExitLeak(p) == p

\* line 98: leaving the with block, normally (after close and join, lines
\* 100-101) or by an exception, runs Pool.__exit__, which terminates the pool
PoolExit(p) == "terminated"

\* lines 99-104: every job returned; the pool is closed, joined and left, and
\* codeChurnPerDelta returns the tuples in job order
MapReturn ==
    /\ pc = "map"
    /\ MapReady(status)
    /\ firstError = -1
    /\ result' = [ok |-> TRUE,
                  value |-> [j \in 1..Len(jobs) |->
                                <<jobs[j].id, jobs[j].directory, finishedJobs[j]>>]]
    /\ pool' = PoolExit(pool)
    /\ pc' = "aggregate"
    /\ UNCHANGED <<all_repos, repoIdx, timeDelta, numDirectories, corrupt, fsRepos, fsDirs,
                   fsSnaps, new_temp_dir, dirs, jobs, status, started, temp,
                   finishedJobs, firstError, concurrent, error, combined_data,
                   months, avg_churn, summary, call, ret>>

\* line 99: pool.map raises the exception of the first job that failed; the
\* with block terminates the pool and the exception leaves codeChurnPerDelta
\* and __main__
MapRaise ==
    /\ pc = "map"
    /\ MapReady(status)
    /\ firstError # -1
    /\ error' = "WorkerError"
    /\ pool' = PoolExit(pool)
    /\ status' = [j \in DOMAIN status |->
                     IF status[j] \in {"done", "failed"} THEN status[j] ELSE "killed"]
    /\ pc' = "crashed"
    /\ UNCHANGED <<all_repos, repoIdx, timeDelta, numDirectories, corrupt, fsRepos, fsDirs,
                   fsSnaps, new_temp_dir, dirs, jobs, started, temp, finishedJobs,
                   firstError, concurrent, result, combined_data, months, avg_churn, summary,
                   call, ret>>

\* lines 191-195: the results of the repository are sorted and grouped by month
Aggregate ==
    /\ pc = "aggregate"
    /\ combined_data' = AggregateResult(combined_data, result.value)
    /\ pc' = "main"
    /\ UNCHANGED <<all_repos, repoIdx, timeDelta, numDirectories, corrupt, fsRepos, fsDirs,
                   fsSnaps, new_temp_dir, dirs, jobs, pool, status, started, temp,
                   finishedJobs, firstError, concurrent, result, error, months,
                   avg_churn, summary, call, ret>>

\* lines 198-220: the month keys are sorted, every month is averaged, and the
\* series is summarised before and after the threshold
Finalize ==
    /\ pc = "main"
    /\ repoIdx = Len(all_repos)
    /\ months' = MonthsOf(combined_data)
    /\ avg_churn' = AvgChurnOf(combined_data, months')
    /\ summary' = Summary(months', avg_churn')
    /\ pc' = "done"
    /\ UNCHANGED <<all_repos, repoIdx, timeDelta, numDirectories, corrupt, fsRepos, fsDirs,
                   fsSnaps, new_temp_dir, dirs, jobs, pool, status, started, temp,
                   finishedJobs, firstError, concurrent, result, error,
                   combined_data, call, ret>>

Next ==
    \/ CallRun
    \/ CheckCapacity
    \/ GetNewTempDir
    \/ CopyRepo
    \/ CopyFails
    \/ CreateJobs
    \/ PoolMap
    \/ \E j \in DOMAIN status : StartJob(j)
    \/ \E j \in DOMAIN status : JobBegin(j)
    \/ \E j \in DOMAIN status : JobScan(j)
    \/ \E j \in DOMAIN status : JobReturn(j)
    \/ MapReturn
    \/ MapRaise
    \/ Aggregate
    \/ Finalize

Spec == Init /\ [][Next]_vars

----------------------------------------------------------------------------
(* Properties of a run of the program                                      *)

Finished(st) == {j \in DOMAIN st : st[j] = "done"}
Failed(st) == {j \in DOMAIN st : st[j] = "failed"}

\* the tuple codeChurnJob returns for job j
JobTuple(j) == <<jobs[j].id, jobs[j].directory, finishedJobs[j]>>

\* C1 (as claimed): when a worker of the pool has failed and codeChurnPerDelta
\* has ended, its caller holds the tuples of all the workers that succeeded
\* (and with them a record of the failure); nothing of the successful workers
\* is lost.
C1_PartialResultsReturned ==
    (pool = "terminated" /\ Failed(status) # {} /\ Finished(status) # {})
        => /\ result.ok
           /\ \A j \in Finished(status) :
                 \E i \in DOMAIN result.value : result.value[i] = JobTuple(j)

\* C2: the jobs are bound to pairwise distinct snapshot directories, every
\* snapshot made by createMultipleRepos belongs to exactly one job, two jobs
\* that run at the same time never share a directory, and the pool executes
\* every job once: never twice, and exactly once by the time the pool is left.
C2_DisjointSnapshots ==
    /\ \A i, j \in DOMAIN jobs : i # j => jobs[i].directory # jobs[j].directory
    /\ jobs # <<>> =>
          \A d \in DOMAIN dirs :
              Cardinality({j \in DOMAIN jobs : jobs[j].directory = dirs[d]}) = 1
    /\ \A i, j \in Running(status) : i # j => jobs[i].directory # jobs[j].directory
    /\ \A j \in DOMAIN started : started[j] <= 1
    /\ pool = "terminated" => \A j \in DOMAIN started : started[j] = 1

C2_Witness ==
    /\ pool = "terminated"
    /\ Len(jobs) >= 3
    /\ concurrent
    /\ \A j \in DOMAIN jobs : status[j] = "done" /\ Len(finishedJobs[j]) > 0

\* the run the end-to-end example describes: the one repository r1 (three
\* commits in January 2020: insertions 10, 5, 0, deletions 2, 1, 0, and no
\* other commit), a one-month step, one worker, over and done
C3_Case ==
    /\ all_repos = <<"r1">>
    /\ timeDelta = Months(1)
    /\ numDirectories = 1
    /\ pc = "done"

\* C3 (as claimed): the series of that run is exactly [("2020-01", 6.0)]
C3_Original ==
    C3_Case => months = <<<<50, 48, 50, 48, 45, 48, 49>>>> /\ avg_churn = <<<<6, 1>>>>

\* C3 (amended): the series of that run has one entry for every month of the
\* window, 2019-10 to 2025-01; the entry of 2020-01 is 18.0, the churn of
\* the whole interval as its single sample, and every other month, 2020-02
\* among them, is present with 0.0.
C3_SeriesOfExample ==
    C3_Case =>
        /\ Len(months) = 64
        /\ Len(avg_churn) = 64
        /\ \A i \in 1..64 :
              /\ months[i] = strftime(AddMonths(GLOBAL_START_DATE, i - 1))
              /\ avg_churn[i] = IF months[i] = <<50, 48, 50, 48, 45, 48, 49>>
                                THEN <<18, 1>> ELSE <<0, 1>>
        /\ \E i \in 1..64 : months[i] = <<50, 48, 50, 48, 45, 48, 50>>

C3_Witness == C3_Case /\ Len(months) > 1 /\ error = "none"

\* C4: once a worker has failed, codeChurnPerDelta neither returns nor raises
\* before every other worker has run its job to the end or failed itself: when
\* the pool is left after a failure, no job is queued, running or killed, and
\* every job that did not fail holds a result for each of its date ranges.
C4_SiblingsRunToTheEnd ==
    (firstError # -1 /\ (pool = "terminated" \/ pc # "map")) =>
        \A j \in DOMAIN status :
            \/ status[j] = "failed"
            \/ status[j] = "done" /\ Len(finishedJobs[j]) = Len(jobs[j].dateRanges)

C4_Witness ==
    /\ error = "WorkerError"
    /\ \E j \in Failed(status) : jobs[j].id = firstError
    /\ \E j \in Finished(status) : Len(finishedJobs[j]) = 2

\* C9: whatever the interleaving of the workers, the results a worker holds
\* are those codeChurnJob gives when it is run alone on the repository: its
\* finishedJobs list is at every moment a prefix of that list, and the whole
\* of it when the job is done.
C9_ResultsAsIfAlone ==
    \A j \in DOMAIN status :
        LET alone == codeChurnJobSeq(jobs[j], repoPath)
        IN  /\ Len(finishedJobs[j]) <= Len(alone)
            /\ finishedJobs[j] = SubSeq(alone, 1, Len(finishedJobs[j]))
            /\ status[j] = "done" => finishedJobs[j] = alone

\* two workers that ran at the same time are done, and a commit of the
\* repository lies in a window of each of them
C9_Witness ==
    /\ concurrent
    /\ \E i, j \in Finished(status) :
          /\ i # j
          /\ \E c \in RepoCommits(repoPath) :
                /\ \E k \in DOMAIN finishedJobs[i] :
                      /\ DateLE(finishedJobs[i][k].startDate, c.date)
                      /\ DateLE(c.date, finishedJobs[i][k].endDate)
                      /\ finishedJobs[i][k].churn > 0
                /\ \E k \in DOMAIN finishedJobs[j] :
                      /\ DateLE(finishedJobs[j][k].startDate, c.date)
                      /\ DateLE(c.date, finishedJobs[j][k].endDate)
                      /\ finishedJobs[j][k].churn > 0

\* C10 (as claimed): a worker count outside 0 < count <= cpu_count - 1 is
\* rejected before anything is provisioned: no versioned directory is made
\* and no snapshot is copied.
C10_RejectedBeforeProvisioning ==
    ~(0 < numDirectories /\ numDirectories <= CpuCount - 1) =>
        fsDirs = {} /\ DOMAIN fsSnaps = {} /\ new_temp_dir = NoDir

\* C12 (as claimed): when a copy of createMultipleRepos fails, the program
\* fails and no partly copied tempDir_i/.git stays on disk.
C12_NoPartialSnapshot ==
    error \in {"FileNotFoundError", "shutil.Error"} =>
        /\ pc = "crashed"
        /\ \A p \in DOMAIN fsSnaps : fsSnaps[p] # PartialCopy

\* codeChurnPerDelta has returned to __main__ or has raised
ControlReturned == pc \in {"aggregate", "main", "done", "crashed"}

\* C13 (as claimed): when codeChurnPerDelta has returned or raised, none of
\* the snapshot directories it made for the run is left on disk.
C13_SnapshotsCleanedUp ==
    (ControlReturned /\ new_temp_dir # NoDir) =>
        \A p \in DOMAIN fsSnaps : p[1] # new_temp_dir

\* C14: once codeChurnPerDelta has made its pool, the pool is terminated by
\* the time the call has returned or raised, whether every job returned or one
\* of them raised.
C14_PoolReleased ==
    (pool # "none" /\ pc # "map") => pool = "terminated"

\* a job raised, pool.map re-raised it in the parent, and the pool is terminated
C14_Witness ==
    /\ pc = "crashed"
    /\ error = "WorkerError"
    /\ pool = "terminated"
    /\ \E j \in DOMAIN status : status[j] = "failed"

\* the commits of the snapshot of job j that lie in its k-th date range
CommitsOfRange(j, k) ==
    {c \in RepoCommits(fsSnaps[jobs[j].directory]) :
        /\ ~DateLT(c.date, jobs[j].dateRanges[k][1])
        /\ ~DateLT(jobs[j].dateRanges[k][2], c.date)}

\* C16: a job that has returned holds one result per date range, in the order
\* of the ranges; the insertions and deletions of a result are those of the
\* commits of its own range, its churn is their sum, and a range without
\* commits has a result of zeros.
C16_OneResultPerInterval ==
    \A j \in DOMAIN status :
        status[j] = "done" =>
            /\ Len(finishedJobs[j]) = Len(jobs[j].dateRanges)
            /\ \A k \in 1..Len(finishedJobs[j]) :
                  LET res == finishedJobs[j][k]
                      commits == CommitsOfRange(j, k)
                  IN  /\ res.id = jobs[j].id
                      /\ res.startDate = jobs[j].dateRanges[k][1]
                      /\ res.endDate = jobs[j].dateRanges[k][2]
                      /\ res.insertions = SumInsertions(commits)
                      /\ res.deletions = SumDeletions(commits)
                      /\ res.churn = res.insertions + res.deletions
                      /\ commits = {} =>
                            (res.insertions = 0 /\ res.deletions = 0 /\ res.churn = 0)

\* a returned job whose result for a range with commits is followed by the
\* result of a range without commits
C16_Witness ==
    \E j \in DOMAIN status :
        /\ status[j] = "done"
        /\ \E k \in 1..(Len(finishedJobs[j]) - 1) :
              /\ finishedJobs[j][k].churn > 0
              /\ finishedJobs[j][k].insertions > 0
              /\ finishedJobs[j][k].deletions > 0
              /\ CommitsOfRange(j, k + 1) = {}
              /\ finishedJobs[j][k + 1].churn = 0

\* the commits of the repository of the run that lie in the global window
CommitsInWindow ==
    {c \in RepoCommits(repoPath) :
        ~DateLT(c.date, GLOBAL_START_DATE) /\ ~DateLT(GLOBAL_END_DATE, c.date)}

\* the job and range positions of the run
RangePlaces == UNION {{<<j, k>> : k \in DOMAIN jobs[j].dateRanges} : j \in DOMAIN jobs}

\* the churn of the results of job j at the positions lo..hi, by halves
RECURSIVE ChurnOfResults(_, _, _)
ChurnOfResults(j, lo, hi) ==
    IF lo > hi THEN 0
    ELSE IF lo = hi THEN result.value[j][3][lo].churn
    ELSE LET mid == (lo + hi) \div 2
         IN  ChurnOfResults(j, lo, mid) + ChurnOfResults(j, mid + 1, hi)

\* the churn of all the results the run has returned
RECURSIVE ChurnOfJobs(_)
ChurnOfJobs(n) ==
    IF n = 0 THEN 0
    ELSE ChurnOfJobs(n - 1) + ChurnOfResults(n, 1, Len(result.value[n][3]))

ChurnOfRun == ChurnOfJobs(Len(result.value))

\* C20 (as claimed): when codeChurnPerDelta has returned the results of a
\* repository, every commit of the global window lies in the range of exactly
\* one result, and the churn of the results adds up to the churn of these
\* commits.
C20_EveryCommitCountedOnce ==
    (pc = "aggregate" /\ result.ok) =>
        /\ \A c \in CommitsInWindow :
              Cardinality({x \in RangePlaces : c \in CommitsOfRange(x[1], x[2])}) = 1
        /\ ChurnOfRun = SumInsertions(CommitsInWindow) + SumDeletions(CommitsInWindow)

----------------------------------------------------------------------------
(* createMonthList on its own, over a range of arguments                   *)

\* the program of __main__ at rest, while one of its functions is exercised
ProgIdle ==
    /\ pc = "fn"
    /\ all_repos = <<>>
    /\ repoIdx = 0
    /\ timeDelta = Months(1)
    /\ numDirectories = 1
    /\ corrupt = {}
    /\ fsRepos = Repos
    /\ fsDirs = {}
    /\ fsSnaps = <<>>
    /\ new_temp_dir = NoDir
    /\ dirs = <<>>
    /\ jobs = <<>>
    /\ pool = "none"
    /\ status = <<>>
    /\ started = <<>>
    /\ temp = <<>>
    /\ finishedJobs = <<>>
    /\ firstError = -1
    /\ concurrent = FALSE
    /\ result = NoResult
    /\ error = "none"
    /\ combined_data = <<>>
    /\ months = <<>>
    /\ avg_churn = <<>>
    /\ summary = NoSummary

NotCalled == [done |-> FALSE, value |-> <<>>]

TestStarts == {<<2019, 12, 15>>, <<2020, 1, 1>>, <<2020, 1, 31>>, <<2020, 2, 29>>}
TestEnds == {<<2020, 1, 1>>, <<2020, 2, 29>>, <<2020, 3, 1>>, <<2020, 3, 15>>,
             <<2020, 5, 31>>}
StepDays == {0, 10, 15}

\* the positive steps of up to MaxStepMonths months and some days
TestSteps ==
    {[months |-> m, days |-> d] : m \in 0..MaxStepMonths, d \in StepDays}
        \ {[months |-> 0, days |-> 0]}

InitMonthList ==
    /\ ProgIdle
    /\ ret = NotCalled
    /\ \E s \in TestStarts, e \in TestEnds, st \in TestSteps :
          call = [startDate |-> s, endDate |-> e, stepSize |-> st]

CallCreateMonthList ==
    /\ ~ret.done
    /\ ret' = [done |-> TRUE,
               value |-> createMonthList(call.startDate, call.endDate, call.stepSize)]
    /\ UNCHANGED <<progVars, call>>

SpecMonthList == InitMonthList /\ [][CallCreateMonthList]_vars

\* C5: for start < end and a positive step, the pairs of consecutive
\* boundaries are at least one interval; the first begins at start and the
\* last ends at end; every interval has start < end and ends where the next
\* begins; every interval but the last is one step long and the last is at
\* most one step long.
C5_IntervalsCoverWindow ==
    (ret.done /\ DateLT(call.startDate, call.endDate)) =>
        LET P == monthPairs(ret.value)
            n == Len(P)
        IN  /\ n >= 1
            /\ P[1][1] = call.startDate
            /\ P[n][2] = call.endDate
            /\ \A i \in 1..n : DateLT(P[i][1], P[i][2])
            /\ \A i \in 1..(n - 1) :
                  /\ P[i][2] = P[i + 1][1]
                  /\ P[i][2] = AddDelta(P[i][1], call.stepSize)
            /\ DateLE(P[n][2], AddDelta(P[n][1], call.stepSize))

\* the example of the specification: 2020-01-01 to 2020-03-15 by one month,
\* whose last interval is shorter than the step
C5_Witness ==
    /\ ret.done
    /\ call = [startDate |-> <<2020, 1, 1>>, endDate |-> <<2020, 3, 15>>,
               stepSize |-> Months(1)]
    /\ monthPairs(ret.value) = << <<(<<2020, 1, 1>>), (<<2020, 2, 1>>)>>,
                                  <<(<<2020, 2, 1>>), (<<2020, 3, 1>>)>>,
                                  <<(<<2020, 3, 1>>), (<<2020, 3, 15>>)>> >>

\* C11 (as claimed): with startDate >= endDate the interval generation fails;
\* it does not return a boundary list to go on with.
C11_InvalidRangeRejected ==
    ~DateLT(call.startDate, call.endDate) => ~ret.done

----------------------------------------------------------------------------
(* createJobsByTimeDelta on its own, over steps and directory counts       *)

JobStepMonths == {1, 2, 3, 5, 7, 12, 16, 21, 32, 36, 64, 70}

JobSteps == {[months |-> m, days |-> d] : m \in JobStepMonths, d \in {0, 10}}

InitJobs ==
    /\ ProgIdle
    /\ ret = NotCalled
    /\ \E st \in JobSteps, n \in 0..MaxDirs, r \in Repos, ex \in SUBSET Repos :
          call = [existing |-> ex, repoPath |-> r, timeDelta |-> st,
                  directories |-> [i \in 1..n |-> SnapPath(0, i - 1)]]

CallCreateJobs ==
    /\ ~ret.done
    /\ LET r == createJobsByTimeDelta(call.existing, call.repoPath, call.timeDelta,
                                      call.directories)
       IN  ret' = [done |-> TRUE, raised |-> r.raised, value |-> r.value]
    /\ UNCHANGED <<progVars, call>>

SpecJobs == InitJobs /\ [][CallCreateJobs]_vars

\* the date ranges of the jobs one behind the other, in job order
RECURSIVE ConcatRanges(_)
ConcatRanges(js) ==
    IF Len(js) = 0 THEN <<>> ELSE Head(js).dateRanges \o ConcatRanges(Tail(js))

RECURSIVE SumRangeLens(_)
SumRangeLens(js) ==
    IF Len(js) = 0 THEN 0 ELSE Len(Head(js).dateRanges) + SumRangeLens(Tail(js))

\* the intervals createJobsByTimeDelta splits for the step `delta`
IntervalsOf(delta) ==
    monthPairs(createMonthList(GLOBAL_START_DATE, GLOBAL_END_DATE, delta))

\* createJobsByTimeDelta has returned its job list
JobsReturned == ret.done /\ ret.raised = "none"

\* C6: the jobs createJobsByTimeDelta returns lose and duplicate no interval:
\* their date-range lists sum to
\* the number of intervals, every interval stands at exactly one place of
\* exactly one job, the ranges of a job are in ascending order, and the lists
\* put one behind the other in id order are the interval sequence.
C6_PartitionIsExact ==
    JobsReturned =>
        LET js == ret.value
            pairs == IntervalsOf(call.timeDelta)
            places == UNION {{<<j, k>> : k \in DOMAIN js[j].dateRanges} : j \in DOMAIN js}
        IN  /\ SumRangeLens(js) = Len(pairs)
            /\ \A p \in DOMAIN pairs :
                  Cardinality({x \in places : js[x[1]].dateRanges[x[2]] = pairs[p]}) = 1
            /\ \A j \in DOMAIN js :
                  /\ js[j].id = j - 1
                  /\ \A k \in 1..(Len(js[j].dateRanges) - 1) :
                        DateLT(js[j].dateRanges[k][1], js[j].dateRanges[k + 1][1])
            /\ ConcatRanges(js) = pairs

\* a split that does not come out even: 64 intervals over 5 directories
C6_Witness ==
    /\ JobsReturned
    /\ call.timeDelta = Months(1)
    /\ Len(ret.value) = 5
    /\ Len(IntervalsOf(call.timeDelta)) = 64
    /\ Len(ret.value[1].dateRanges) = 13
    /\ Len(ret.value[5].dateRanges) = 12

\* the jobs of js that have no date range
EmptyJobs(js) == {j \in DOMAIN js : Len(js[j].dateRanges) = 0}

\* C18: createJobsByTimeDelta returns one job per directory, with the ids 0..n-1 in order and the
\* directory of its position; the sizes of the date-range lists differ by at
\* most one; with fewer intervals than directories, every interval is a job of
\* its own and each surplus job has no date range, and codeChurnJob run on it
\* returns an empty list.
C18_NearEqualChunks ==
    JobsReturned =>
        LET js == ret.value
            n == Len(call.directories)
            pairs == IntervalsOf(call.timeDelta)
        IN  /\ Len(js) = n
            /\ \A j \in DOMAIN js :
                  js[j].id = j - 1 /\ js[j].directory = call.directories[j]
            /\ \A i, j \in DOMAIN js :
                  Len(js[i].dateRanges) - Len(js[j].dateRanges) \in {-1, 0, 1}
            /\ Len(pairs) < n =>
                  /\ Cardinality(EmptyJobs(js)) = n - Len(pairs)
                  /\ \A j \in (DOMAIN js) \ EmptyJobs(js) : Len(js[j].dateRanges) = 1
            /\ \A j \in EmptyJobs(js) : \A r \in Repos : codeChurnJobSeq(js[j], r) = <<>>

\* two intervals for five directories: three jobs have nothing to do
C18_Witness ==
    /\ JobsReturned
    /\ Len(IntervalsOf(call.timeDelta)) = 2
    /\ Len(ret.value) = 5
    /\ EmptyJobs(ret.value) = {3, 4, 5}
    /\ codeChurnJobSeq(ret.value[5], "r1") = <<>>

----------------------------------------------------------------------------
(* The aggregation of __main__ on its own: the results of the repositories *)
(* arrive in any order, with the tuples of their workers in any order, and *)
(* the same results are aggregated a second time from an empty dict        *)

IntervalResult(id, path, startDate, endDate, ins, del) ==
    [id |-> id, repoPath |-> path, startDate |-> startDate, endDate |-> endDate,
     insertions |-> ins, deletions |-> del, churn |-> ins + del]

\* what the workers of three repositories returned
WorkerA0 ==
    <<0, SnapPath(0, 0),
      <<IntervalResult(0, SnapPath(0, 0), <<2020, 1, 1>>, <<2020, 1, 16>>, 2, 1),
        IntervalResult(0, SnapPath(0, 0), <<2020, 1, 16>>, <<2020, 2, 1>>, 5, 3)>> >>
WorkerA1 ==
    <<1, SnapPath(0, 1),
      <<IntervalResult(1, SnapPath(0, 1), <<2020, 3, 1>>, <<2020, 3, 16>>, 0, 0),
        IntervalResult(1, SnapPath(0, 1), <<2020, 3, 16>>, <<2020, 4, 1>>, 6, 0)>> >>
WorkerB0 ==
    <<0, SnapPath(1, 0),
      <<IntervalResult(0, SnapPath(1, 0), <<2019, 12, 1>>, <<2020, 1, 1>>, 1, 1),
        IntervalResult(0, SnapPath(1, 0), <<2020, 1, 1>>, <<2020, 2, 1>>, 4, 1)>> >>
WorkerB1 == <<1, SnapPath(1, 1), <<>>>>
WorkerC0 ==
    <<0, SnapPath(2, 0),
      <<IntervalResult(0, SnapPath(2, 0), <<2020, 1, 1>>, <<2020, 2, 1>>, 0, 0),
        IntervalResult(0, SnapPath(2, 0), <<2020, 3, 1>>, <<2020, 4, 1>>, 1, 0)>> >>

\* the result of a repository: the tuples of its workers
RepoResults == {{WorkerA0, WorkerA1}, {WorkerB0, WorkerB1}, {WorkerC0}}

\* the orders in which the elements of S can stand in a list
Orders(S) ==
    {f \in [1..Cardinality(S) -> S] : \A i, j \in DOMAIN f : i # j => f[i] # f[j]}

InitAgg ==
    /\ ProgIdle
    /\ ret = NotCalled
    /\ \E all \in (SUBSET RepoResults) \ {{}} :
          call = [all |-> all, pending |-> all, pass |-> 1, first |-> <<>>, second |-> <<>>]

\* lines 191-195 for the result of one more repository
AggArrive ==
    /\ pc = "fn"
    /\ \E r \in call.pending :
          \E res \in Orders(r) :
              /\ result' = [ok |-> TRUE, value |-> res]
              /\ combined_data' = AggregateResult(combined_data, res)
              /\ call' = [call EXCEPT !.pending = @ \ {r},
                                      !.first = IF call.pass = 1 THEN Append(@, res) ELSE @,
                                      !.second = IF call.pass = 2 THEN Append(@, res) ELSE @]
    /\ UNCHANGED <<pc, all_repos, repoIdx, timeDelta, numDirectories, corrupt, fsRepos, fsDirs,
                   fsSnaps, new_temp_dir, dirs, jobs, pool, status, started, temp,
                   finishedJobs, firstError, concurrent, error, months, avg_churn,
                   summary, ret>>

\* lines 198-199 at the end of the first aggregation; the series is kept and
\* the second aggregation starts from the empty dict of line 182
AggFinalizeFirst ==
    /\ pc = "fn"
    /\ call.pending = {}
    /\ call.pass = 1
    /\ months' = MonthsOf(combined_data)
    /\ avg_churn' = AvgChurnOf(combined_data, months')
    /\ ret' = [done |-> TRUE, value |-> <<months', avg_churn'>>]
    /\ combined_data' = <<>>
    /\ call' = [call EXCEPT !.pending = call.all, !.pass = 2]
    /\ UNCHANGED <<pc, all_repos, repoIdx, timeDelta, numDirectories, corrupt, fsRepos, fsDirs,
                   fsSnaps, new_temp_dir, dirs, jobs, pool, status, started, temp,
                   finishedJobs, firstError, concurrent, result, error, summary>>

\* lines 198-199 at the end of the second aggregation
AggFinalizeSecond ==
    /\ pc = "fn"
    /\ call.pending = {}
    /\ call.pass = 2
    /\ months' = MonthsOf(combined_data)
    /\ avg_churn' = AvgChurnOf(combined_data, months')
    /\ pc' = "done"
    /\ UNCHANGED <<all_repos, repoIdx, timeDelta, numDirectories, corrupt, fsRepos, fsDirs,
                   fsSnaps, new_temp_dir, dirs, jobs, pool, status, started, temp,
                   finishedJobs, firstError, concurrent, result, error,
                   combined_data, summary, call, ret>>

NextAgg == AggArrive \/ AggFinalizeFirst \/ AggFinalizeSecond

SpecAgg == InitAgg /\ [][NextAgg]_vars

\* every IntervalResult of the results `all`
ItemsOf(all) ==
    UNION {UNION {{w[3][k] : k \in DOMAIN w[3]} : w \in r} : r \in all}

RECURSIVE SumChurn(_)
SumChurn(items) ==
    IF items = {} THEN 0
    ELSE LET x == CHOOSE it \in items : TRUE IN x.churn + SumChurn(items \ {x})

\* C7: the series holds exactly the months in which some IntervalResult, of
\* whatever repository and worker, starts; the value of a month is the sum of
\* the churn of the IntervalResults that start in it divided by their number;
\* the months stand in strictly ascending order.
C7_MeanPerMonth ==
    ret.done =>
        LET items == ItemsOf(call.all)
            inMonth(m) == {it \in items : strftime(it.startDate) = m}
        IN  /\ Len(avg_churn) = Len(months)
            /\ {months[i] : i \in DOMAIN months} = {strftime(it.startDate) : it \in items}
            /\ \A i \in DOMAIN months :
                  LET n == Cardinality(inMonth(months[i]))
                      total == SumChurn(inMonth(months[i]))
                  IN  /\ n > 0
                      /\ avg_churn[i][1] * n = total * avg_churn[i][2]
                      /\ avg_churn[i][2] > 0
            /\ \A i, j \in DOMAIN months : i < j => StrLT(months[i], months[j])

\* the three repositories aggregated: 2019-12 has one sample, 2020-01 four
\* samples of three workers (3, 8, 5, 0: mean 4), 2020-02 none, 2020-03 three
\* (0, 6, 1: mean 7/3)
C7_Witness ==
    /\ ret.done
    /\ call.all = RepoResults
    /\ months = <<strftime(<<2019, 12, 1>>), strftime(<<2020, 1, 1>>),
                  strftime(<<2020, 3, 1>>)>>
    /\ avg_churn = <<<<2, 1>>, <<4, 1>>, <<7, 3>>>>

\* C8: the series of the second aggregation is the series of the first,
\* whatever the two orders in which the results arrived.
C8_OrderIndependent ==
    pc = "done" => <<months, avg_churn>> = ret.value

\* two aggregations of the three repositories whose results arrived in
\* different orders
C8_Witness ==
    /\ pc = "done"
    /\ call.all = RepoResults
    /\ call.first # call.second
    /\ call.first[1] # call.second[1]
    /\ Len(months) = 3


----------------------------------------------------------------------------
(* get_new_temp_dir on its own: two runs of the program started on the     *)
(* same base path, over a directory that already holds some versions; the  *)
(* existence check and the mkdir of a run are separate steps               *)

\* the versions 0..MaxVersion-1 may exist before the runs start
MaxVersion == 3

TempRuns == {1, 2}

\* everything but the versioned directories, the runs and what they return
tempFrame == <<pc, all_repos, repoIdx, timeDelta, numDirectories, corrupt, fsRepos,
               fsSnaps, new_temp_dir, dirs, jobs, pool, status, started, temp,
               finishedJobs, firstError, concurrent, result, error, combined_data,
               months, avg_churn, summary>>

InitTemp ==
    /\ pc = "fn"
    /\ all_repos = <<>>
    /\ repoIdx = 0
    /\ timeDelta = Months(1)
    /\ numDirectories = 1
    /\ corrupt = {}
    /\ fsRepos = Repos
    /\ fsDirs \in SUBSET (0..(MaxVersion - 1))
    /\ fsSnaps = <<>>
    /\ new_temp_dir = NoDir
    /\ dirs = <<>>
    /\ jobs = <<>>
    /\ pool = "none"
    /\ status = <<>>
    /\ started = <<>>
    /\ temp = <<>>
    /\ finishedJobs = <<>>
    /\ firstError = -1
    /\ concurrent = FALSE
    /\ result = NoResult
    /\ error = "none"
    /\ combined_data = <<>>
    /\ months = <<>>
    /\ avg_churn = <<>>
    /\ summary = NoSummary
    /\ call = [existing |-> fsDirs,
               runs |-> [r \in TempRuns |-> [at |-> "exists", version |-> 0]]]
    /\ ret = [r \in TempRuns |-> NoDir]

\* lines 34-36: one evaluation of the loop condition by run r
TempCheck(r) ==
    /\ call.runs[r].at = "exists"
    /\ call' = [call EXCEPT !.runs[r] =
                   IF PathExists(fsDirs, @.version)
                   THEN [@ EXCEPT !.version = NextVersion(@)]
                   ELSE [@ EXCEPT !.at = "mkdir"]]
    /\ UNCHANGED <<tempFrame, fsDirs, ret>>

\* lines 37-38: os.mkdir(new_temp_dir) and the return of run r
TempMkdir(r) ==
    /\ call.runs[r].at = "mkdir"
    /\ LET version == call.runs[r].version
       IN  IF MkdirOk(fsDirs, version)
           THEN /\ fsDirs' = fsDirs \cup {version}
                /\ ret' = [ret EXCEPT ![r] = version]
                /\ call' = [call EXCEPT !.runs[r].at = "returned"]
           ELSE /\ call' = [call EXCEPT !.runs[r].at = "FileExistsError"]
                /\ UNCHANGED <<fsDirs, ret>>
    /\ UNCHANGED tempFrame

NextTemp == \E r \in TempRuns : TempCheck(r) \/ TempMkdir(r)

SpecTemp == InitTemp /\ [][NextTemp]_vars

TempReturned(r) == call.runs[r].at = "returned"

\* C15: however the checks and the mkdirs of the two runs interleave, the two
\* runs are never both handed the same versioned directory.
C15_NoSharedTempDir ==
    (TempReturned(1) /\ TempReturned(2)) => ret[1] # ret[2]

\* both runs found the same version free; one of them made and got the
\* directory, the mkdir of the other raised FileExistsError
C15_Witness ==
    /\ TempReturned(1)
    /\ call.runs[2].at = "FileExistsError"
    /\ call.runs[2].version = ret[1]

\* the directories made by the runs other than r
MadeByOthers(r) == {ret[o] : o \in {q \in TempRuns \ {r} : TempReturned(q)}}

\* C19: a run that returns was given a directory it made, of the smallest
\* version that existed neither before nor by the other run; the directories
\* that existed before are all still there, and nothing else was made.
C19_FirstFreeVersion ==
    /\ call.existing \subseteq fsDirs
    /\ fsDirs = call.existing \cup {ret[r] : r \in {q \in TempRuns : TempReturned(q)}}
    /\ \A r \in TempRuns :
          TempReturned(r) =>
             /\ ret[r] >= 0
             /\ ret[r] \notin call.existing
             /\ \A k \in 0..(ret[r] - 1) : k \in call.existing \cup MadeByOthers(r)

\* v0 and v2 existed: the first run fills the gap v1, the next run gets v3
C19_Witness ==
    /\ call.existing = {0, 2}
    /\ TempReturned(1) /\ ret[1] = 1
    /\ TempReturned(2) /\ ret[2] = 3


----------------------------------------------------------------------------
(* The summary of __main__ on its own, over series of months around the    *)
(* threshold                                                               *)

\* the months a series may hold
SummaryMonths ==
    {<<2021, 12, 1>>, <<2022, 10, 1>>, <<2022, 11, 1>>, <<2022, 12, 1>>, <<2023, 1, 1>>}

\* the mean churn a month may have
SummaryValues == {<<0, 1>>, <<3, 1>>, <<7, 2>>}

InitSummary ==
    /\ ProgIdle
    /\ ret = NotCalled
    /\ \E ms \in SUBSET SummaryMonths :
          LET keys == SortedKeys({strftime(d) : d \in ms})
          IN  \E ac \in [1..Len(keys) -> SummaryValues] :
                 call = [months |-> keys, avg_churn |-> ac]

\* lines 201-220 on the series of the call
CallSummary ==
    /\ ~ret.done
    /\ ret' = [done |-> TRUE, value |-> Summary(call.months, call.avg_churn)]
    /\ UNCHANGED <<progVars, call>>

SpecSummary == InitSummary /\ [][CallSummary]_vars

\* "2022-11", the key of the threshold month
ThresholdKey == <<50, 48, 50, 50, 45, 49, 49>>

\* the positions of the series whose month is before the threshold month
PositionsBefore == {i \in DOMAIN call.months : StrLT(call.months[i], ThresholdKey)}

PositionsAfter == (DOMAIN call.months) \ PositionsBefore

\* the values of the series at the positions P, in the order of the series
ValuesAt(P) ==
    LET pos == [k \in 1..Cardinality(P) |->
                   CHOOSE i \in P : Cardinality({o \in P : o < i}) = k - 1]
    IN  [k \in 1..Cardinality(P) |-> call.avg_churn[pos[k]]]

RECURSIVE DenProduct(_)
DenProduct(list) == IF Len(list) = 0 THEN 1 ELSE Head(list)[2] * DenProduct(Tail(list))

\* the sum of the fractions of list, times D (a multiple of every denominator)
RECURSIVE ScaledSum(_, _)
ScaledSum(list, D) ==
    IF Len(list) = 0 THEN 0
    ELSE Head(list)[1] * (D \div Head(list)[2]) + ScaledSum(Tail(list), D)

\* avg is the mean of list, or 0 when list is empty
IsMeanOrZero(avg, list) ==
    IF Len(list) = 0 THEN avg[1] = 0
    ELSE LET D == DenProduct(list)
         IN  avg[1] * Len(list) * D = avg[2] * ScaledSum(list, D)

\* C17: the summary puts the months before the threshold month in one part
\* and all the others in the second part, each month in exactly one of them,
\* and reports for each part the mean of its values, 0 for an empty part.
C17_SplitAtThreshold ==
    ret.done =>
        /\ ret.value.before = ValuesAt(PositionsBefore)
        /\ ret.value.after = ValuesAt(PositionsAfter)
        /\ Len(ret.value.before) + Len(ret.value.after) = Len(call.months)
        /\ IsMeanOrZero(ret.value.avg_before, ret.value.before)
        /\ IsMeanOrZero(ret.value.avg_after, ret.value.after)

\* a series that holds the month before the threshold and the threshold month
\* itself, with different means on the two sides
C17_Witness ==
    /\ ret.done
    /\ \E i \in DOMAIN call.months : call.months[i] = strftime(<<2022, 10, 1>>)
    /\ \E i \in DOMAIN call.months :
          call.months[i] = ThresholdKey /\ call.avg_churn[i] = <<7, 2>>
    /\ Len(ret.value.before) = 2
    /\ Len(ret.value.after) = 3
    /\ ret.value.avg_before = <<3, 2>>
    /\ ret.value.avg_after = <<13, 6>>

====
